---- MODULE Spec2Model ----
(***************************************************************************)
(* State-machine model of the NetEase playlist tools:                      *)
(*   music_downloader.py  (extractor: playlist id, resolver, manifest)     *)
(*   download_songs.py    (manifest parser, download_song, worker pool)    *)
(* Text is modelled as a sequence of tokens.  A token is one character     *)
(* where the code looks at characters (digits, white space, '.', '-',      *)
(* '/', '?', ...) and a whole word where the code only copies or compares  *)
(* the word as a unit.                                                     *)
(***************************************************************************)
EXTENDS Integers, Sequences, FiniteSets, TLC

VARIABLES
    \* ---- extract_playlist_id (music_downloader.py) ----
    urlCase,         \* how the input string was built (shape, id, ...)
    playlist_url,    \* the raw input string, as tokens
    playlist_id,     \* the value extract_playlist_id returned
    \* ---- filename building (download_songs.py) ----
    fnSong,          \* the record whose filename is built
    filename,        \* the sanitized filename
    \* ---- download_song / download_all_songs (download_songs.py) ----
    songs,           \* the records handed to the downloader
    task,            \* per record: the state of its download_song call
    disk,            \* the download directory: path -> file
    max_workers,     \* ThreadPoolExecutor(max_workers)
    work_queue,      \* the executor's queue of submitted, not yet started calls
    num_threads,     \* worker threads the executor has started
    mainPc,          \* where the caller (download_all_songs or a direct call) is
    collected,       \* futures as_completed has already yielded
    success_count,
    failed_count,
    \* ---- process_playlist and the manifest list.txt (music_downloader.py) ----
    list_txt,        \* the content of list.txt, as tokens (Absent: no such file)
    songs_detail,    \* the track list get_playlist_tracks returned
    ppPc,            \* where process_playlist is
    loop_i,          \* the loop variable i of process_playlist (1-based)
    url_attempt,     \* the loop variable attempt of get_song_url_v1
    url_info,        \* what get_song_url_v1 returned for track i
    url_requests,    \* history: requests the current call of get_song_url_v1 issued
    url_cause,       \* history: the kind of the last response the current call got
    pp_success_count,\* success_count of process_playlist
    resolved,        \* history: per track, what the resolver returned
    resolver_calls,  \* history: per track, how often get_song_url_v1 was called
    in_flight,       \* history: requests issued whose response has not come
    pre_summary,     \* history: list.txt as update_file_summary found it
    parsed_songs,    \* what parse_list_file returned
    \* ---- get_playlist_detail (music_downloader.py) ----
    pd_pc,           \* where the call is: "idle", "request", "returned"
    pd_attempt,      \* the loop variable attempt
    pd_log,          \* history: the response of every request so far
    pd_result,       \* what the call returned
    \* ---- get_playlist_tracks (music_downloader.py) ----
    pt_pc,           \* where the call is: "idle", "detail", "batch", "returned"
    pt_ids,          \* the trackIds the server holds for the playlist
    pt_first,        \* history: the response of the playlist/detail request
    pt_i,            \* the loop variable i (0-based offset of the batch)
    all_songs,       \* the songs collected so far
    pt_log,          \* history: per song/detail request, its ids and its response
    pt_result,       \* what the call returned
    \* ---- run.py ----
    run_argc,        \* the number of command-line arguments, len(sys.argv) - 1
    run_pc,          \* where the script is
    run_raised,      \* the exception travelling up to the top level, or "none"
    run_why,         \* history: why process_playlist came back
    exit_code,       \* the exit status of the process
    net_calls,       \* history: calls made to the methods that issue requests
    list_txt0,       \* history: list.txt as it was when the script started
    \* ---- main of download_songs.py ----
    workers_input,   \* what the user typed at the worker-count prompt
    workers_pc,      \* "prompt", then "called" (download_all_songs) or "raised"
    workers_arg,     \* the max_workers handed to download_all_songs
    \* ---- process_single_song (music_downloader.py) ----
    ps_lock,         \* self.lock: 0 when free, else the call that holds it
    processed_count, \* self.processed_count
    ps_pc,           \* per call: where it is
    ps_reg,          \* per call: the value "+=" has loaded and not yet stored
    ps_current,      \* per call: its local variable current (0: not yet set)
    ps_count0        \* history: processed_count when the calls began

extractVars == <<urlCase, playlist_url, playlist_id>>
fnVars == <<fnSong, filename>>
dlVars == <<songs, task, disk, max_workers, work_queue, num_threads, mainPc,
            collected, success_count, failed_count>>
\* the state of process_playlist, but for the manifest
ppRest == <<songs_detail, ppPc, loop_i, url_attempt, url_info,
            url_requests, url_cause, in_flight,
            pp_success_count, resolved, resolver_calls, pre_summary, parsed_songs>>
ppVars == <<list_txt, ppRest>>
pdVars == <<pd_pc, pd_attempt, pd_log, pd_result>>
ptVars == <<pt_pc, pt_ids, pt_first, pt_i, all_songs, pt_log, pt_result>>
runVars == <<run_argc, run_pc, run_raised, run_why, exit_code, net_calls, list_txt0>>
mwVars == <<workers_input, workers_pc, workers_arg>>
psVars == <<ps_lock, processed_count, ps_pc, ps_reg, ps_current, ps_count0>>
apiVars == <<pdVars, ptVars, runVars, mwVars, psVars>>
mfVars == <<ppVars, apiVars>>
\* everything but the state of get_playlist_detail
notPd == <<extractVars, fnVars, dlVars, ppVars, ptVars, runVars, mwVars, psVars>>
\* everything but the state of get_playlist_tracks
notPt == <<extractVars, fnVars, dlVars, ppVars, pdVars, runVars, mwVars, psVars>>
\* everything run.py leaves alone
notRun == <<fnVars, dlVars, ppRest, pdVars, ptVars, mwVars, psVars>>
\* everything but the worker-count prompt
notMw == <<extractVars, fnVars, dlVars, ppVars, pdVars, ptVars, runVars, psVars>>
\* everything but the state of process_single_song
notPs == <<extractVars, fnVars, dlVars, ppVars, pdVars, ptVars, runVars, mwVars>>
vars == <<extractVars, fnVars, dlVars, mfVars>>

\* Python's None, and "not yet computed"
PyNone == <<"<None>">>
Unset == <<"<unset>">>

\* the values the variables of a component hold while another component runs
NoCase == [form |-> "none"]
ExtractIdle == urlCase = NoCase /\ playlist_url = <<>> /\ playlist_id = Unset
FnIdle == fnSong = NoCase /\ filename = Unset
DlIdle ==
    /\ songs = <<>> /\ task = <<>> /\ disk = <<>> /\ max_workers = 0
    /\ work_queue = <<>> /\ num_threads = 0 /\ mainPc = "idle"
    /\ collected = {} /\ success_count = 0 /\ failed_count = 0
Absent == <<"<absent>">>
\* the None that get_song_url_v1 returns in place of a result
NullInfo == [none |-> TRUE]
PdIdle == pd_pc = "idle" /\ pd_attempt = 0 /\ pd_log = <<>> /\ pd_result = Unset
PtIdle ==
    /\ pt_pc = "idle" /\ pt_ids = <<>> /\ pt_first = "none" /\ pt_i = 0
    /\ all_songs = <<>> /\ pt_log = <<>> /\ pt_result = Unset
NoExit == <<"<running>">>
RunIdle ==
    /\ run_argc = 0 /\ run_pc = "idle" /\ run_raised = "none" /\ run_why = "none"
    /\ exit_code = NoExit /\ net_calls = 0 /\ list_txt0 = Absent
MwIdle == workers_input = <<>> /\ workers_pc = "idle" /\ workers_arg = 0
PsIdle ==
    /\ ps_lock = 0 /\ processed_count = 0 /\ ps_pc = <<>> /\ ps_reg = <<>>
    /\ ps_current = <<>> /\ ps_count0 = 0
ApiIdle == PdIdle /\ PtIdle /\ RunIdle /\ MwIdle /\ PsIdle
PpRestIdle ==
    /\ songs_detail = <<>> /\ ppPc = "idle" /\ loop_i = 0
    /\ url_attempt = 0 /\ url_info = NullInfo /\ pp_success_count = 0
    /\ url_requests = 0 /\ url_cause = "none" /\ in_flight = 0
    /\ resolved = <<>> /\ resolver_calls = <<>> /\ pre_summary = Unset
    /\ parsed_songs = Unset
PpIdle == list_txt = Absent /\ PpRestIdle
MfIdle == PpIdle /\ ApiIdle

(***************************************************************************)
(* Sequence helpers                                                        *)
(***************************************************************************)
RECURSIVE Concat(_)
Concat(ss) == IF ss = <<>> THEN <<>> ELSE Head(ss) \o Concat(Tail(ss))

\* s * n
Rep(s, n) == IF n <= 0 \/ s = <<>> THEN <<>>
             ELSE [k \in 1..(n * Len(s)) |-> s[((k - 1) % Len(s)) + 1]]

Contains(s, tok) == \E k \in 1..Len(s) : s[k] = tok

\* index of the first occurrence of tok in s, 0 when there is none (str.find + 1)
Find(s, tok) == IF Contains(s, tok)
                THEN CHOOSE k \in 1..Len(s) : s[k] = tok /\ \A j \in 1..(k - 1) : s[j] # tok
                ELSE 0

\* str.split(tok): the pieces between occurrences of tok
RECURSIVE Split(_, _)
Split(s, tok) ==
    LET k == Find(s, tok)
    IN  IF k = 0 THEN <<s>>
        ELSE <<SubSeq(s, 1, k - 1)>> \o Split(SubSeq(s, k + 1, Len(s)), tok)

(***************************************************************************)
(* extract_playlist_id: urllib.parse.urlparse and parse_qs on tokens       *)
(***************************************************************************)
UrlDelims == {"/", "?", "#", "&", "=", ":"}

\* urlsplit: the scheme is what precedes the first ':' when it is made of
\* scheme characters only
SchemeLen(url) ==
    LET k == Find(url, ":")
    IN  IF k > 1 /\ \A j \in 1..(k - 1) : url[j] \notin UrlDelims THEN k ELSE 0

\* first position at or after `from` holding one of '/', '?', '#'; Len+1 if none
NetlocEnd(s, from) ==
    IF \E k \in from..Len(s) : s[k] \in {"/", "?", "#"}
    THEN CHOOSE k \in from..Len(s) :
            /\ s[k] \in {"/", "?", "#"}
            /\ \A j \in from..(k - 1) : s[j] \notin {"/", "?", "#"}
    ELSE Len(s) + 1

urlparse(url) ==
    LET sl == SchemeLen(url)
        u1 == SubSeq(url, sl + 1, Len(url))
        hasNet == Len(u1) >= 2 /\ u1[1] = "/" /\ u1[2] = "/"
        ne == IF hasNet THEN NetlocEnd(u1, 3) ELSE 1
        netloc == IF hasNet THEN SubSeq(u1, 3, ne - 1) ELSE <<>>
        u2 == IF hasNet THEN SubSeq(u1, ne, Len(u1)) ELSE u1
        h == Find(u2, "#")
        fragment == IF h > 0 THEN SubSeq(u2, h + 1, Len(u2)) ELSE <<>>
        u3 == IF h > 0 THEN SubSeq(u2, 1, h - 1) ELSE u2
        q == Find(u3, "?")
        query == IF q > 0 THEN SubSeq(u3, q + 1, Len(u3)) ELSE <<>>
        path == IF q > 0 THEN SubSeq(u3, 1, q - 1) ELSE u3
    IN  [scheme |-> SubSeq(url, 1, sl - 1), netloc |-> netloc, path |-> path,
         query |-> query, fragment |-> fragment]

\* parse_qs(...)[key][0]: the value of the first "key=value" pair whose value is
\* not blank (blank values are dropped); PyNone when key is not in the result
QsFirst(query, key) ==
    LET pairs == Split(query, "&")
        good(k) == /\ Find(pairs[k], "=") > 0
                   /\ SubSeq(pairs[k], 1, Find(pairs[k], "=") - 1) = key
                   /\ Find(pairs[k], "=") < Len(pairs[k])
    IN  IF \E k \in 1..Len(pairs) : good(k)
        THEN LET k == CHOOSE k \in 1..Len(pairs) : good(k) /\ \A j \in 1..(k - 1) : ~good(j)
             IN  SubSeq(pairs[k], Find(pairs[k], "=") + 1, Len(pairs[k]))
        ELSE PyNone

\* the path branch: the part that follows the first part equal to 'playlist'
PathId(path) ==
    LET parts == Split(path, "/")
        hit(k) == parts[k] = <<"playlist">> /\ k + 1 <= Len(parts)
    IN  IF \E k \in 1..Len(parts) : hit(k)
        THEN parts[(CHOOSE k \in 1..Len(parts) : hit(k) /\ \A j \in 1..(k - 1) : ~hit(j)) + 1]
        ELSE PyNone

extract_playlist_id(url) ==
    IF Contains(url, "playlist")
    THEN LET parsed == urlparse(url)
         IN  IF parsed.query # <<>>
             THEN QsFirst(parsed.query, <<"id">>)
             ELSE PathId(parsed.path)
    ELSE url

(***************************************************************************)
(* The inputs of extract_playlist_id                                       *)
(***************************************************************************)
PlaylistIds == {<<"24381616">>, <<"7">>}
Schemes == {<<>>, <<"https", ":", "/", "/">>, <<"http", ":", "/", "/">>}
Hosts == {<<"music.163.com">>, <<"y.music.163.com">>}
\* what stands between the host and 'playlist'
Prefixes == {<<"/">>, <<"/", "#", "/">>, <<"/", "m", "/">>}
\* "query": playlist?id=N   "queryExtra": playlist?userid=9&id=N
\* "path": playlist/N       "pathSlash": playlist/N/
\* "noId": playlist?userid=9   "blankId": playlist?id=   "bare": N
UrlForms == {"query", "queryExtra", "path", "pathSlash", "noId", "blankId"}

UrlCases ==
    [form : UrlForms, scheme : Schemes, host : Hosts, prefix : Prefixes, id : PlaylistIds]
    \cup [form : {"bare"}, scheme : {<<>>}, host : {<<>>}, prefix : {<<>>}, id : PlaylistIds]

FormTokens(form, id) ==
    CASE form = "query"      -> <<"playlist", "?", "id", "=">> \o id
      [] form = "queryExtra" -> <<"playlist", "?", "userid", "=", "9", "&", "id", "=">> \o id
      [] form = "path"       -> <<"playlist", "/">> \o id
      [] form = "pathSlash"  -> <<"playlist", "/">> \o id \o <<"/">>
      [] form = "noId"       -> <<"playlist", "?", "userid", "=", "9">>
      [] form = "blankId"    -> <<"playlist", "?", "id", "=">>
      [] form = "bare"       -> id

RenderUrl(c) == c.scheme \o c.host \o c.prefix \o FormTokens(c.form, c.id)

(***************************************************************************)
(* Filename building: download_song lines 80-82 and sanitize_filename       *)
(***************************************************************************)
Digit(d) == CASE d = 0 -> "0" [] d = 1 -> "1" [] d = 2 -> "2" [] d = 3 -> "3"
              [] d = 4 -> "4" [] d = 5 -> "5" [] d = 6 -> "6" [] d = 7 -> "7"
              [] d = 8 -> "8" [] d = 9 -> "9"

\* str(n) for n >= 0, one token per digit
RECURSIVE IntToStr(_)
IntToStr(n) == IF n < 10 THEN <<Digit(n)>> ELSE IntToStr(n \div 10) \o <<Digit(n % 10)>>

\* f"{n:03d}": zero-padded to at least three digits
Fmt03d(n) == Rep(<<"0">>, 3 - Len(IntToStr(n))) \o IntToStr(n)

IllegalChars == {"<", ">", ":", "\"", "/", "\\", "|", "?", "*"}
MaxFilenameLen == 200

\* sanitize_filename with the length test taken before the cut point is reached:
\* a name of 201 characters is left as it is
sanitize_filename_mut(name) ==
    LET repl == [k \in 1..Len(name) |-> IF name[k] \in IllegalChars THEN "_" ELSE name[k]]
    IN  IF Len(repl) > MaxFilenameLen + 1 THEN SubSeq(repl, 1, MaxFilenameLen) ELSE repl

sanitize_filename(name) ==
    LET repl == [k \in 1..Len(name) |-> IF name[k] \in IllegalChars THEN "_" ELSE name[k]]
    IN  IF Len(repl) > MaxFilenameLen THEN SubSeq(repl, 1, MaxFilenameLen) ELSE repl

\* line 80: f"{index:03d}. {name} - {artist}.{type}"
\* the filename built without the index
RawFilename_mut(song) ==
    song.name \o <<" ", "-", " ">> \o song.artist \o <<".">> \o song.type

\* line 80: f"{index:03d}. {name} - {artist}.{type}"
RawFilename(song) ==
    Fmt03d(song.index) \o <<".", " ">> \o song.name \o <<" ", "-", " ">>
        \o song.artist \o <<".">> \o song.type

BuildFilename(song) == sanitize_filename(RawFilename(song))

\* length of the long names the inputs include
LongLen == 230

FnIndexes == {1, 42, 1000}
FnNames == { <<"a", "b">>,
             <<"a", "/", "b", ":", "c">>,
             <<"<", ">", ":", "\"", "/", "\\", "|", "?", "*">>,
             Rep(<<"a">>, LongLen),
             Rep(<<"x", "?">>, LongLen \div 2),
             Rep(<<"a">>, MaxFilenameLen - 14) }
FnArtists == { <<"c">>, <<"c", "*", "d">>, <<"A", "C", "/", "D", "C">>, Rep(<<"|">>, LongLen) }
FnTypes == { <<"m", "p", "3">>, <<"f", "l", "a", "c">>, <<>> }
FnSongs == [index : FnIndexes, name : FnNames, artist : FnArtists, type : FnTypes]

(***************************************************************************)
(* download_song (download_songs.py lines 76-141)                          *)
(***************************************************************************)
NoFile == [exists |-> FALSE]
\* a file: its size in bytes and the attempts whose bytes it holds (0: bytes
\* that were on disk before the call)
File(size, by) == [exists |-> TRUE, size |-> size, by |-> by]

\* line 82: os.path.join(self.download_dir, filename)
FilePath(song) == <<"downloads", "/">> \o BuildFilename(song)

Abs(x) == IF x < 0 THEN 0 - x ELSE x
SizeTolerance == 1024
DefaultMaxRetries == 3
\* iter_content(chunk_size=8192)
ChunkSize == 8192

\* the size test done on exact equality only
SizeMatches_mut(file_size, expected) == file_size = expected

\* line 87
SizeMatches(file_size, expected) == Abs(file_size - expected) < SizeTolerance

\* what one GET can produce: a status code, or an exception raised by the request
GetOutcomes == {"200", "206", "403", "500", "raise"}

NewTask(pc, retries) ==
    [pc |-> pc, max_retries |-> retries, attempt |-> 0, gets |-> 0,
     found |-> -1, okSeen |-> FALSE, skipped |-> FALSE, result |-> "none"]

Tasks == DOMAIN task
Running(t) == task[t].pc \in {"start", "get", "stream"}
Done(t) == task[t].pc = "done"

\* the retry tail with the last attempt treated like the others: it is retried
AfterFailure_mut(t) ==
    IF task[t].attempt < task[t].max_retries
    THEN [task[t] EXCEPT !.pc = "get", !.attempt = @ + 1]
    ELSE [task[t] EXCEPT !.pc = "done", !.result = "False"]

\* the retry tail cut short as soon as another record has failed
AfterFailure_shared(t) ==
    IF /\ task[t].attempt < task[t].max_retries - 1
       /\ \A u \in Tasks \ {t} : task[u].result # "False"
    THEN [task[t] EXCEPT !.pc = "get", !.attempt = @ + 1]
    ELSE [task[t] EXCEPT !.pc = "done", !.result = "False"]

\* lines 118-121, 125-128, 132-135: sleep and go round again while attempts
\* remain, else return False
AfterFailure(t) ==
    IF task[t].attempt < task[t].max_retries - 1
    THEN [task[t] EXCEPT !.pc = "get", !.attempt = @ + 1]
    ELSE [task[t] EXCEPT !.pc = "done", !.result = "False"]

\* lines 79-93: build the path, skip when a file of matching size is there, else
\* enter the retry loop (which runs no iteration when max_retries is 0)
StartDownload(t) ==
    /\ task[t].pc = "start"
    /\ LET f == disk[FilePath(songs[t])]
           seen == IF f.exists THEN f.size ELSE -1
       IN  task' = [task EXCEPT ![t] =
                IF f.exists /\ SizeMatches(f.size, songs[t].size)
                THEN [@ EXCEPT !.pc = "done", !.result = "True", !.skipped = TRUE,
                               !.found = seen]
                ELSE IF @.max_retries = 0
                THEN [@ EXCEPT !.pc = "done", !.result = "False", !.found = seen]
                ELSE [@ EXCEPT !.pc = "get", !.found = seen]]
    /\ UNCHANGED <<songs, disk, max_workers, work_queue, num_threads, mainPc,
                   collected, success_count, failed_count, extractVars, fnVars, mfVars>>

\* the target opened for appending: what is there is kept
OpenForWrite_mut(f) == IF f.exists THEN f ELSE File(0, {})

\* line 101, open(filepath, 'wb'): the file is created or cut to length 0
OpenForWrite(f) == File(0, {})

\* lines 103-106: k chunks written by attempt a at the end of the open file
Written(f, k, a) == IF k = 0 THEN f ELSE File(f.size + k * ChunkSize, f.by \cup {a})

\* lines 95-101 and 116-135: one GET; on 200/206 the target is opened with 'wb'
\* (created or truncated), otherwise the attempt has failed
IssueGet(t) ==
    /\ task[t].pc = "get"
    /\ \E outcome \in GetOutcomes :
         IF outcome \in {"200", "206"}
         THEN /\ task' = [task EXCEPT ![t] = [@ EXCEPT !.pc = "stream", !.gets = @ + 1,
                                                      !.okSeen = TRUE]]
              /\ disk' = [disk EXCEPT ![FilePath(songs[t])] = OpenForWrite(@)]
         ELSE /\ task' = [task EXCEPT ![t] = [AfterFailure(t) EXCEPT !.gets = @ + 1]]
              /\ UNCHANGED disk
    /\ UNCHANGED <<songs, max_workers, work_queue, num_threads, mainPc,
                   collected, success_count, failed_count, extractVars, fnVars, mfVars>>

\* chunks in one complete response body
MaxChunks == 1

\* lines 103-114: every chunk of the body is written, the file is closed and
\* download_song returns True
StreamEnd(t) ==
    /\ task[t].pc = "stream"
    /\ disk' = [disk EXCEPT ![FilePath(songs[t])] =
                   Written(@, MaxChunks, task[t].attempt + 1)]
    /\ task' = [task EXCEPT ![t] = [@ EXCEPT !.pc = "done", !.result = "True"]]
    /\ UNCHANGED <<songs, max_workers, work_queue, num_threads, mainPc,
                   collected, success_count, failed_count, extractVars, fnVars, mfVars>>

\* lines 103-106 and 130-135: the connection breaks after k chunks were written;
\* the file is closed with what it holds and the attempt has failed
StreamRaise(t) ==
    /\ task[t].pc = "stream"
    /\ \E k \in 0..(MaxChunks - 1) :
         disk' = [disk EXCEPT ![FilePath(songs[t])] = Written(@, k, task[t].attempt + 1)]
    /\ task' = [task EXCEPT ![t] = AfterFailure(t)]
    /\ UNCHANGED <<songs, max_workers, work_queue, num_threads, mainPc,
                   collected, success_count, failed_count, extractVars, fnVars, mfVars>>

(***************************************************************************)
(* A direct call download_song(song, max_retries)                          *)
(***************************************************************************)
\* largest max_retries argument tried
MaxRetriesArg == 4

SongSizes == {500, 4096}
SizeDeltas == {-1025, -1024, -1023, -1, 0, 1, 1023, 1024, 1025}
DlSong(k, size) ==
    [index |-> k, name |-> <<"a">>, artist |-> <<"b">>, type |-> <<"m", "p", "3">>,
     size |-> size]
FilesNear(size) == {NoFile} \cup {File(size + d, {0}) : d \in {x \in SizeDeltas : size + x >= 0}}

InitSong ==
    /\ \E size \in SongSizes : songs = <<DlSong(1, size)>>
    /\ \E r \in 1..MaxRetriesArg : task = <<NewTask("idle", r)>>
    /\ \E f \in FilesNear(songs[1].size) : disk = (FilePath(songs[1]) :> f)
    /\ max_workers = 0 /\ work_queue = <<>> /\ num_threads = 0
    /\ mainPc = "direct"
    /\ collected = {} /\ success_count = 0 /\ failed_count = 0
    /\ ExtractIdle /\ FnIdle /\ MfIdle

\* the call itself
CallDownloadSong ==
    /\ mainPc = "direct"
    /\ task[1].pc = "idle"
    /\ task' = [task EXCEPT ![1] = [@ EXCEPT !.pc = "start"]]
    /\ UNCHANGED <<songs, disk, max_workers, work_queue, num_threads, mainPc,
                   collected, success_count, failed_count, extractVars, fnVars, mfVars>>

NextSong ==
    \/ CallDownloadSong
    \/ StartDownload(1)
    \/ IssueGet(1)
    \/ StreamEnd(1)
    \/ StreamRaise(1)

SpecSong == InitSong /\ [][NextSong]_vars

(***************************************************************************)
(* download_all_songs (download_songs.py lines 143-172)                     *)
(* ThreadPoolExecutor: submit() queues the call and starts a worker thread *)
(* while fewer than max_workers exist; a worker thread runs one queued     *)
(* call at a time, oldest first.                                           *)
(***************************************************************************)
\* most records in one batch, and the largest max_workers argument
MaxSongs == 2
MaxWorkersArg == 2

SongLists == UNION {[1..n -> {DlSong(0, 4096)}] : n \in 0..MaxSongs}
\* the manifest numbers its records from 1
Numbered(list) == [k \in DOMAIN list |-> [list[k] EXCEPT !.index = k]]

InitPool ==
    /\ \E list \in SongLists : songs = Numbered(list)
    /\ task = [k \in DOMAIN songs |-> NewTask("idle", DefaultMaxRetries)]
    /\ disk \in [{FilePath(songs[k]) : k \in DOMAIN songs} ->
                    {NoFile, File(4096, {0}), File(4096 + 1024, {0})}]
    /\ max_workers \in 1..MaxWorkersArg
    /\ work_queue = <<>> /\ num_threads = 0
    /\ mainPc = "submit"
    /\ collected = {} /\ success_count = 0 /\ failed_count = 0
    /\ ExtractIdle /\ FnIdle /\ MfIdle

\* a thread is started for every submitted call
AdjustThreadCount_mut(n, maxw) == n + 1

\* submit(): a new worker thread only while fewer than max_workers exist
AdjustThreadCount(n, maxw) == IF n < maxw THEN n + 1 ELSE n

\* a worker thread that has run one call never takes another
NumRunning_mut == Cardinality({t \in Tasks : Running(t) \/ Done(t)})

\* the worker threads that are inside a call of download_song
NumRunning == Cardinality({t \in Tasks : Running(t)})

\* line 154: the next record is submitted (records are submitted in list order)
Submit ==
    /\ mainPc = "submit"
    /\ \E t \in Tasks :
         /\ task[t].pc = "idle"
         /\ \A u \in Tasks : u < t => task[u].pc # "idle"
         /\ task' = [task EXCEPT ![t] = [@ EXCEPT !.pc = "queued"]]
         /\ work_queue' = Append(work_queue, t)
    /\ num_threads' = AdjustThreadCount(num_threads, max_workers)
    /\ UNCHANGED <<songs, disk, max_workers, mainPc, collected, success_count,
                   failed_count, extractVars, fnVars, mfVars>>

\* line 157: every record is submitted, the caller starts waiting for results
AllSubmitted ==
    /\ mainPc = "submit"
    /\ \A t \in Tasks : task[t].pc # "idle"
    /\ mainPc' = "collect"
    /\ UNCHANGED <<songs, task, disk, max_workers, work_queue, num_threads,
                   collected, success_count, failed_count, extractVars, fnVars, mfVars>>

\* a worker thread that runs nothing takes the oldest queued call
WorkerTake ==
    /\ work_queue # <<>>
    /\ NumRunning < num_threads
    /\ task' = [task EXCEPT ![Head(work_queue)] = [@ EXCEPT !.pc = "start"]]
    /\ work_queue' = Tail(work_queue)
    /\ UNCHANGED <<songs, disk, max_workers, num_threads, mainPc, collected,
                   success_count, failed_count, extractVars, fnVars, mfVars>>

\* only a True result is counted; a False one is dropped
Tally_mut(counts, result) ==
    IF result = "True" THEN [counts EXCEPT !.success = @ + 1] ELSE counts

\* lines 160-164: success_count or failed_count goes up by one
Tally(counts, result) ==
    IF result = "True"
    THEN [counts EXCEPT !.success = @ + 1]
    ELSE [counts EXCEPT !.failed = @ + 1]

\* lines 157-164: as_completed yields a finished future, its result is counted
Collect(t) ==
    /\ mainPc = "collect"
    /\ Done(t)
    /\ t \notin collected
    /\ collected' = collected \cup {t}
    /\ LET c == Tally([success |-> success_count, failed |-> failed_count], task[t].result)
       IN  success_count' = c.success /\ failed_count' = c.failed
    /\ UNCHANGED <<songs, task, disk, max_workers, work_queue, num_threads, mainPc,
                   extractVars, fnVars, mfVars>>

\* lines 169-172: as_completed is exhausted, the pool is shut down, the summary
\* is printed
PrintSummary ==
    /\ mainPc = "collect"
    /\ collected = Tasks
    /\ mainPc' = "printed"
    /\ UNCHANGED <<songs, task, disk, max_workers, work_queue, num_threads,
                   collected, success_count, failed_count, extractVars, fnVars, mfVars>>

NextPool ==
    \/ Submit
    \/ AllSubmitted
    \/ WorkerTake
    \/ \E t \in Tasks : StartDownload(t)
    \/ \E t \in Tasks : IssueGet(t)
    \/ \E t \in Tasks : StreamEnd(t)
    \/ \E t \in Tasks : StreamRaise(t)
    \/ \E t \in Tasks : Collect(t)
    \/ PrintSummary

SpecPool == InitPool /\ [][NextPool]_vars

\* Two records in one batch: names longer than the cut, names that differ only
\* in an illegal character, indices of different width; and two records with
\* the same index
PathRecord(index, name) == [DlSong(index, 4096) EXCEPT !.name = name]
PathPairs ==
    { << PathRecord(1, Rep(<<"a">>, LongLen)), PathRecord(2, Rep(<<"a">>, LongLen)) >>,
      << PathRecord(100, <<"a", "/", "b">>), PathRecord(1000, <<"a", "?", "b">>) >>,
      << PathRecord(12, <<"3", ".", " ", "a">>), PathRecord(123, <<"a">>) >>,
      << PathRecord(7, <<"a", "/", "b">>), PathRecord(7, <<"a", "?", "b">>) >> }

InitPaths ==
    /\ songs \in PathPairs
    /\ task = [k \in DOMAIN songs |-> NewTask("idle", DefaultMaxRetries)]
    /\ disk = [path \in {FilePath(songs[k]) : k \in DOMAIN songs} |-> NoFile]
    /\ max_workers \in 1..MaxWorkersArg
    /\ work_queue = <<>> /\ num_threads = 0
    /\ mainPc = "submit"
    /\ collected = {} /\ success_count = 0 /\ failed_count = 0
    /\ ExtractIdle /\ FnIdle /\ MfIdle

SpecPaths == InitPaths /\ [][NextPool]_vars

\* While some thread can take a step, a step is taken in the end: the
\* scheduler runs a thread that can run, and a GET (line 98, timeout=30) comes
\* back or raises.
\* download_all_songs called on a directory in which every record's file is in
\* the same condition: missing, or complete
InitPoolFair ==
    /\ \E list \in SongLists : songs = Numbered(list)
    /\ task = [k \in DOMAIN songs |-> NewTask("idle", DefaultMaxRetries)]
    /\ \E f \in {NoFile, File(4096, {0})} :
          disk = [path \in {FilePath(songs[k]) : k \in DOMAIN songs} |-> f]
    /\ max_workers \in 1..MaxWorkersArg
    /\ work_queue = <<>> /\ num_threads = 0
    /\ mainPc = "submit"
    /\ collected = {} /\ success_count = 0 /\ failed_count = 0
    /\ ExtractIdle /\ FnIdle /\ MfIdle

SpecPoolFair == InitPoolFair /\ [][NextPool]_vars /\ WF_vars(NextPool)


(***************************************************************************)
(* The manifest list.txt: init_file, append_song_to_file,                   *)
(* update_file_summary (music_downloader.py lines 462-527).                 *)
(* The Chinese labels are single tokens, written here in pinyin:            *)
(*   "gedan:" playlist, "yinzhi:" quality, "shengchengshijian:" generated  *)
(*   at, "gequID:" song id, "zhilian:" direct link, "daxiao:" size,         *)
(*   "leixing:" type, "xiazaishuoming:" download note, "tuijian:"           *)
(*   recommended tools, "biyaoqingqiutou:" required headers,                *)
(*   "tongjixinxi" statistics, "chenggong:" songs resolved, "shou" the      *)
(*   counter word, "wanchengshijian:" finished at.                          *)
(***************************************************************************)
NL == "\n"
CR == "\r"
RuleLen == 50
Rule == Rep(<<"=">>, RuleLen)
Indent == <<" ", " ", " ">>

\* time.strftime('%Y-%m-%d %H:%M:%S')
Timestamp == <<"2", "0", "2", "5", "-", "0", "1", "-", "0", "2", " ",
               "1", "2", ":", "3", "0", ":", "0", "0">>

\* what init_file writes (lines 467-470)
HeaderText(playlist_name, quality_level) ==
    <<"#", " ", "gedan:", " ">> \o playlist_name \o <<NL>>
    \o <<"#", " ", "yinzhi:", " ">> \o quality_level \o <<NL>>
    \o <<"#", " ", "shengchengshijian:", " ">> \o Timestamp \o <<NL>>
    \o Rule \o <<NL, NL>>

\* the header written at the end of what the file holds
init_file_mut(old, playlist_name, quality_level) ==
    (IF old = Absent THEN <<>> ELSE old) \o HeaderText(playlist_name, quality_level)

\* init_file (lines 462-473): open(filename, 'w') truncates, the header is written
init_file(old, playlist_name, quality_level) == HeaderText(playlist_name, quality_level)

\* the record block of append_song_to_file (lines 480-490)
BlockText(song, index) ==
    IntToStr(index) \o <<".", " ">> \o song.name \o <<" ", "-", " ">> \o song.artist \o <<NL>>
    \o Indent \o <<"gequID:", " ">> \o song.song_id \o <<NL>>
    \o Indent \o <<"yinzhi:", " ">> \o song.quality
           \o <<" ", "(">> \o IntToStr(song.bitrate) \o <<"kbps", ")", NL>>
    \o Indent \o <<"zhilian:", " ">> \o song.url \o <<NL>>
    \o Indent \o <<"daxiao:", " ">> \o IntToStr(song.size) \o <<" ", "bytes", NL>>
    \o Indent \o <<"leixing:", " ">> \o song.type \o <<NL>>
    \o Indent \o <<"xiazaishuoming:", " ", "cizhilianxuyaotianjiaRefererqingqiutou", NL>>
    \o Indent \o <<"tuijian:", " ", "IDM,Aria", "2", ",curl", NL>>
    \o Indent \o <<"biyaoqingqiutou:", " ", "Referer:", " ", "https://music", ".",
                   "1", "6", "3", ".", "com/", NL>>
    \o Indent \o <<"User", "-", "Agent:", " ", "Mozilla/", "5", ".", "0", " ",
                   "(Windows", " ", "NT", " ", "1", "0", ".", "0", ";", " ",
                   "Win", "6", "4", ";", " ", "x", "6", "4", ")", " ",
                   "AppleWebKit/", "5", "3", "7", ".", "3", "6", NL>>
    \o <<NL>>

\* append_song_to_file opened with 'w': the block replaces the file
append_song_to_file_mut(old, song, index) == BlockText(song, index)

\* append_song_to_file (lines 475-494): open(filename, 'a'), the block is added
\* at the end (the file is created when it is not there)
append_song_to_file(old, song, index) ==
    (IF old = Absent THEN <<>> ELSE old) \o BlockText(song, index)

\* what update_file_summary adds (lines 521-524)
FooterText(total_count) ==
    <<NL>> \o Rule \o <<NL>>
    \o <<"#", " ", "tongjixinxi", NL>>
    \o <<"#", " ", "chenggong:", " ">> \o IntToStr(total_count) \o <<" ", "shou", NL>>
    \o <<"#", " ", "wanchengshijian:", " ">> \o Timestamp \o <<NL>>

\* index of the first token of s that is in class, 0 when there is none
FindIn(s, class) ==
    IF \E k \in 1..Len(s) : s[k] \in class
    THEN CHOOSE k \in 1..Len(s) : s[k] \in class /\ \A j \in 1..(k - 1) : s[j] \notin class
    ELSE 0

\* f.readlines() of a file opened with open(filename, 'r', encoding='utf-8'):
\* the text layer reads with universal newlines, so "\r\n" and a lone "\r"
\* both come back as "\n", and the text is cut after every newline
RECURSIVE ReadLines(_)
ReadLines(txt) ==
    LET k == FindIn(txt, {NL, CR})
        after == IF txt[k] = CR /\ k < Len(txt) /\ txt[k + 1] = NL THEN k + 2 ELSE k + 1
    IN  IF txt = <<>> THEN <<>>
        ELSE IF k = 0 THEN <<txt>>
        ELSE <<SubSeq(txt, 1, k - 1) \o <<NL>> >> \o ReadLines(SubSeq(txt, after, Len(txt)))

\* f.read() of a file opened the same way
ReadText(txt) == Concat(ReadLines(txt))

StartsWith(line, prefix) ==
    Len(line) >= Len(prefix) /\ SubSeq(line, 1, Len(prefix)) = prefix

\* lines 504-508: two lines past the first line that starts with the rule
HeaderEnd(lines) ==
    IF \E k \in 1..Len(lines) : StartsWith(lines[k], Rule)
    THEN (CHOOSE k \in 1..Len(lines) :
             StartsWith(lines[k], Rule) /\ \A j \in 1..(k - 1) : ~StartsWith(lines[j], Rule)) + 1
    ELSE 0

\* line 517: song_lines = lines[header_end:]
SongLines(lines, header_end) == SubSeq(lines, header_end + 1, Len(lines))

\* update_file_summary (lines 496-527): the file is read, then rewritten as header
\* lines, song lines and the footer.  header_end is kept 1-based here: it is the
\* number of header lines, as in the code.
\* With no file the open for reading raises and nothing is written.  With fewer
\* than header_end lines lines[i] raises after the lines there are were written:
\* the file is left without the footer.
update_file_summary(old, total_count) ==
    LET lines == ReadLines(old)
        header_end == HeaderEnd(lines)
    IN  IF old = Absent THEN Absent
        ELSE IF header_end > Len(lines) THEN Concat(lines)
        ELSE Concat(SubSeq(lines, 1, header_end))
             \o Concat(SongLines(lines, header_end))
             \o FooterText(total_count)

(***************************************************************************)
(* parse_list_file (download_songs.py lines 34-64): the regular expression  *)
(* of line 42, matched the way Python's re does (leftmost match, greedy    *)
(* \s* and \d+, lazy .+?, backtracking in that order).                     *)
(***************************************************************************)
WhiteSpace == {" ", NL, CR}
Digits == {"0", "1", "2", "3", "4", "5", "6", "7", "8", "9"}

Ws == [kind |-> "ws"]              \* \s*
Dg == [kind |-> "digits"]          \* (\d+)
Lz == [kind |-> "lazy"]            \* (.+?)
Lit(tok) == [kind |-> "lit", tok |-> tok]

\* (\d+)\.\s*(.+?)\s*-\s*(.+?)\s*\n\s*gequID:\s*(\d+)\s*\n\s*yinzhi:\s*(.+?)\s*
\* \((\d+)kbps\)\s*\n\s*zhilian:\s*(.+?)\s*\n\s*daxiao:\s*(\d+)\s*bytes\s*\n
\* \s*leixing:\s*(.+?)\s*\n
\* The pattern is kept in six pieces, one per line of a record block; the cut
\* points change nothing in what matches, they bound the depth of the search.
Pattern ==
    << << Dg, Lit("."), Ws, Lz, Ws, Lit("-"), Ws, Lz, Ws, Lit(NL) >>,
       << Ws, Lit("gequID:"), Ws, Dg, Ws, Lit(NL) >>,
       << Ws, Lit("yinzhi:"), Ws, Lz, Ws, Lit("("), Dg, Lit("kbps"), Lit(")"), Ws, Lit(NL) >>,
       << Ws, Lit("zhilian:"), Ws, Lz, Ws, Lit(NL) >>,
       << Ws, Lit("daxiao:"), Ws, Dg, Ws, Lit("bytes"), Ws, Lit(NL) >>,
       << Ws, Lit("leixing:"), Ws, Lz, Ws, Lit(NL) >> >>

NoMatch == [ok |-> FALSE]

\* how many tokens from pos on belong to class (a set of tokens)
RunLen(txt, pos, class) ==
    IF \E k \in pos..Len(txt) : txt[k] \notin class
    THEN (CHOOSE k \in pos..Len(txt) :
             txt[k] \notin class /\ \A j \in pos..(k - 1) : txt[j] \in class) - pos
    ELSE Len(txt) + 1 - pos

\* how many tokens from pos on are not a newline ('.' matches all but \n)
DotRunLen(txt, pos) ==
    IF \E k \in pos..Len(txt) : txt[k] = NL
    THEN (CHOOSE k \in pos..Len(txt) :
             txt[k] = NL /\ \A j \in pos..(k - 1) : txt[j] # NL) - pos
    ELSE Len(txt) + 1 - pos

\* the group txt[pos .. pos+n-1] put in front of the groups of every alternative
WithGroup(alts, txt, pos, n) ==
    [a \in 1..Len(alts) |->
        [alts[a] EXCEPT !.groups = <<SubSeq(txt, pos, pos + n - 1)>> \o @]]

\* Every way piece[k..] matches at pos, in the order the backtracking search
\* tries them: a greedy element its longest run first, a lazy one its shortest.
RECURSIVE Alternatives(_, _, _, _)
Alternatives(txt, piece, k, pos) ==
    IF k > Len(piece) THEN << [end |-> pos, groups |-> <<>>] >>
    ELSE CASE piece[k].kind = "lit" ->
                IF pos <= Len(txt) /\ txt[pos] = piece[k].tok
                THEN Alternatives(txt, piece, k + 1, pos + 1)
                ELSE <<>>
           [] piece[k].kind = "ws" ->
                LET run == RunLen(txt, pos, WhiteSpace)
                IN  Concat([c \in 1..(run + 1) |->
                               Alternatives(txt, piece, k + 1, pos + run + 1 - c)])
           [] piece[k].kind = "digits" ->
                LET run == RunLen(txt, pos, Digits)
                IN  Concat([c \in 1..run |->
                               WithGroup(Alternatives(txt, piece, k + 1, pos + run + 1 - c),
                                         txt, pos, run + 1 - c)])
           [] piece[k].kind = "lazy" ->
                LET run == DotRunLen(txt, pos)
                IN  Concat([n \in 1..run |->
                               WithGroup(Alternatives(txt, piece, k + 1, pos + n),
                                         txt, pos, n)])

RECURSIVE MatchFrom(_, _, _), FirstThatContinues(_, _, _, _)

\* the first alternative of piece p after which the remaining pieces match
FirstThatContinues(txt, p, alts, a) ==
    IF a > Len(alts) THEN NoMatch
    ELSE LET rest == MatchFrom(txt, p + 1, alts[a].end)
         IN  IF rest.ok
             THEN [ok |-> TRUE, end |-> rest.end, groups |-> alts[a].groups \o rest.groups]
             ELSE FirstThatContinues(txt, p, alts, a + 1)

\* the match of pieces p.. of the pattern at pos: where it ends and its groups
MatchFrom(txt, p, pos) ==
    IF p > Len(Pattern) THEN [ok |-> TRUE, end |-> pos, groups |-> <<>>]
    ELSE FirstThatContinues(txt, p, Alternatives(txt, Pattern[p], 1, pos), 1)

\* the matches of the pattern, each with the position it starts at (a match
\* starts with a digit)
AllMatches(txt) ==
    LET tried == {[start |-> q, m |-> MatchFrom(txt, 1, q)] :
                     q \in {q \in 1..Len(txt) : txt[q] \in Digits}}
    IN  {t \in tried : t.m.ok}

\* re.findall: the matches from left to right, none overlapping another; the
\* search for the next one starts where the last one ended
RECURSIVE FindAll(_, _)
FindAll(matches, from) ==
    LET later == {t \in matches : t.start >= from}
    IN  IF later = {} THEN <<>>
        ELSE LET first == CHOOSE t \in later : \A u \in later : t.start <= u.start
             IN  <<first.m.groups>> \o FindAll(matches, first.m.end)

\* str.strip()
Strip(str) ==
    IF \A k \in 1..Len(str) : str[k] \in WhiteSpace THEN <<>>
    ELSE LET a == CHOOSE k \in 1..Len(str) :
                     str[k] \notin WhiteSpace /\ \A j \in 1..(k - 1) : str[j] \in WhiteSpace
             b == CHOOSE k \in 1..Len(str) :
                     str[k] \notin WhiteSpace /\ \A j \in (k + 1)..Len(str) : str[j] \in WhiteSpace
         IN  SubSeq(str, a, b)

DigitValue(d) == CHOOSE v \in 0..9 : Digit(v) = d

\* int(s) for a string of digits
RECURSIVE StrToInt(_)
StrToInt(str) ==
    IF Len(str) = 1 THEN DigitValue(str[1])
    ELSE 10 * StrToInt(SubSeq(str, 1, Len(str) - 1)) + DigitValue(str[Len(str)])

\* lines 46-56: the song built from one match
SongOfMatch(g) ==
    [index |-> StrToInt(g[1]), name |-> Strip(g[2]), artist |-> Strip(g[3]),
     song_id |-> g[4], quality |-> Strip(g[5]), bitrate |-> StrToInt(g[6]),
     url |-> Strip(g[7]), size |-> StrToInt(g[8]), type |-> Strip(g[9])]

\* parse_list_file: [] when the file cannot be read
parse_list_file(txt) ==
    IF txt = Absent THEN <<>>
    ELSE LET content == ReadText(txt)
             matches == FindAll(AllMatches(content), 1)
         IN  [k \in 1..Len(matches) |-> SongOfMatch(matches[k])]

(***************************************************************************)
(* process_playlist (music_downloader.py lines 378-460) from the point     *)
(* where the track list is fetched and the quality chosen (line 406), with *)
(* get_song_url_v1 (lines 247-325) one request at a time.                  *)
(***************************************************************************)
PlaylistName == <<"x">>
QualityLevel == <<"standard">>

\* a track as get_playlist_tracks returns it; id is str(song.get('id')), the
\* form in which the f-string of line 481 writes it
Track(id, name, ar) == [id |-> id, name |-> name, ar |-> ar]
TrackKinds ==
    { Track(<<"7">>, <<"a">>, << <<"b", " ", "-", " ", "c">>, <<"e">> >>),
      Track(<<"8">>, <<"a", " ", "-", " ", "c">>, << <<"b">> >>),
      Track(<<"None">>, <<"d">>, <<>>),
      Track(<<"1", "0">>, <<"a", CR, "c">>, << <<"b">> >>) }

MaxTracks == 2
TrackLists == UNION {[1..n -> TrackKinds] : n \in 1..MaxTracks}

\* what get_song_url_v1 returns on success (lines 295-302)
UrlInfo(type) ==
    [url |-> <<"http://m/x", ".", "mp3">>, br |-> 128, size |-> 2048, type |-> type]
UrlInfos == {UrlInfo(<<"mp3">>), UrlInfo(<<>>)}

\* a manifest left by an earlier run
StaleManifest ==
    HeaderText(<<"old">>, QualityLevel)
    \o BlockText([name |-> <<"z">>, artist |-> <<"y">>, song_id |-> <<"5">>,
                  quality |-> QualityLevel, bitrate |-> 128,
                  url |-> <<"http://m/z">>, size |-> 1, type |-> <<"mp3">>], 1)
    \o FooterText(1)

\* ', '.join(artists) if artists else the placeholder (lines 427-428)
RECURSIVE Join(_)
Join(ar) == IF Len(ar) = 1 THEN ar[1] ELSE ar[1] \o <<",", " ">> \o Join(Tail(ar))
ArtistNames(ar) == IF ar = <<>> THEN <<"weizhigeshou">> ELSE Join(ar)

\* lines 436-445: the record built from the track and the resolver's result
SongInfo(song, info) ==
    [name |-> song.name, artist |-> ArtistNames(song.ar), url |-> info.url,
     quality |-> QualityLevel, bitrate |-> info.br, size |-> info.size,
     type |-> info.type, song_id |-> song.id]

UrlMaxRetries == 2

\* one response of the URL endpoint: a status other than 200, an exception,
\* an envelope without code 200 or data, code 200 with an empty url, a url
ResolverOutcomes ==
    {[kind |-> k] : k \in {"status", "raise", "envelope", "nourl"}}
    \cup {[kind |-> "ok", info |-> u] : u \in UrlInfos}

\* the count always raised
SuccessCount_mut(count, info) == count + 1

\* lines 433 and 449: success_count += 1 only under "if url_info"
SuccessCount(count, info) == IF info # NullInfo THEN count + 1 ELSE count

InitManifest ==
    /\ songs_detail \in TrackLists
    /\ list_txt \in {Absent, StaleManifest}
    /\ ppPc = "init"
    /\ loop_i = 0
    /\ url_attempt = 0
    /\ url_info = NullInfo
    /\ url_requests = 0
    /\ url_cause = "none"
    /\ in_flight = 0
    /\ pp_success_count = 0
    /\ resolved = <<>>
    /\ resolver_calls = [j \in 1..Len(songs_detail) |-> 0]
    /\ pre_summary = Unset
    /\ parsed_songs = Unset
    /\ ApiIdle
    /\ ExtractIdle
    /\ FnIdle
    /\ DlIdle

\* lines 409-419: the counters are reset and the file is initialised
InitFile ==
    /\ ppPc = "init"
    /\ list_txt' = init_file(list_txt, PlaylistName, QualityLevel)
    /\ pp_success_count' = 0
    /\ loop_i' = 1
    /\ ppPc' = "loop"
    /\ UNCHANGED <<songs_detail, url_attempt, url_info, resolved, resolver_calls,
                   pre_summary, parsed_songs, url_requests, url_cause,
                   in_flight, apiVars, extractVars, fnVars, dlVars>>

\* the call in which the loop body hands the next track on while the one
\* before is still waiting for its response
PipelineFree_mut(pc) == pc \in {"loop", "wait"}

\* lines 421-454 are the body of a plain for loop run by the one thread of
\* the program: track i+1 is taken up when the body has finished for track i
PipelineFree(pc) == pc = "loop"

\* lines 421-431: the next track of the list is handed to get_song_url_v1
NextTrack ==
    /\ PipelineFree(ppPc)
    /\ loop_i <= Len(songs_detail)
    /\ resolver_calls' = [resolver_calls EXCEPT ![loop_i] = @ + 1]
    /\ url_attempt' = 0
    /\ url_requests' = 0
    /\ url_cause' = "none"
    /\ ppPc' = "request"
    /\ UNCHANGED <<list_txt, songs_detail, loop_i, url_info, pp_success_count,
                   resolved, pre_summary, parsed_songs, in_flight, apiVars, extractVars, fnVars, dlVars>>

\* get_song_url_v1 returns v to line 431
ResolverReturns(v, cause) ==
    /\ url_info' = v
    /\ url_cause' = cause
    /\ resolved' = Append(resolved, v)
    /\ ppPc' = "got"
    /\ UNCHANGED url_attempt

\* an envelope without a url goes round the loop like the other failures
RetriedKinds_mut == {"status", "raise", "envelope", "nourl"}

\* the responses after which the loop goes round again while attempts remain:
\* a status other than 200 (lines 279-285), an exception (lines 316-322), an
\* envelope without code 200 or without data (lines 308-314)
RetriedKinds == {"status", "raise", "envelope"}

\* lines 258-274: after the random delay of line 262, session.get sends the
\* request and blocks until the response has come, an exception was raised or
\* the timeout has run out
SendRequest ==
    /\ ppPc = "request"
    /\ in_flight' = in_flight + 1
    /\ url_requests' = url_requests + 1
    /\ ppPc' = "wait"
    /\ UNCHANGED <<list_txt, songs_detail, loop_i, url_attempt, url_info, url_cause,
                   pp_success_count, resolved, resolver_calls, pre_summary,
                   parsed_songs, apiVars, extractVars, fnVars, dlVars>>

\* One pass of the loop of get_song_url_v1 (lines 250-321): what the response
\* to the request of line 274 leads to.  The sleep of half a second before
\* the next attempt (lines 283, 312, 320) is part of the step.
Request(outcome) ==
    /\ ppPc = "wait"
    /\ in_flight' = in_flight - 1
    /\ IF outcome.kind \in RetriedKinds
       THEN IF url_attempt < UrlMaxRetries - 1
            THEN /\ url_attempt' = url_attempt + 1
                 /\ url_cause' = outcome.kind
                 /\ ppPc' = "request"
                 /\ UNCHANGED <<url_info, resolved>>
            ELSE ResolverReturns(NullInfo, outcome.kind)
       ELSE IF outcome.kind = "ok"
            THEN ResolverReturns(outcome.info, "ok")
            ELSE ResolverReturns(NullInfo, "nourl")
    /\ UNCHANGED <<list_txt, songs_detail, loop_i, pp_success_count, resolver_calls,
                   pre_summary, parsed_songs, url_requests, apiVars, extractVars,
                   fnVars, dlVars>>

\* the records numbered by their count
RecordIndex_mut(i, count) == count + 1

\* lines 421 and 448: the index handed to append_song_to_file is the i of
\* enumerate(songs_detail, 1)
RecordIndex(i, count) == i

\* lines 433-454: a result is appended to the file and counted, None is only
\* reported; either way the loop goes on with the next track
HandleResult ==
    /\ ppPc = "got"
    /\ list_txt' = IF url_info # NullInfo
                   THEN append_song_to_file(list_txt,
                                            SongInfo(songs_detail[loop_i], url_info),
                                            RecordIndex(loop_i, pp_success_count))
                   ELSE list_txt
    /\ pp_success_count' = SuccessCount(pp_success_count, url_info)
    /\ loop_i' = loop_i + 1
    /\ ppPc' = "loop"
    /\ url_requests' = 0
    /\ url_cause' = "none"
    /\ UNCHANGED <<songs_detail, url_attempt, url_info, resolved, resolver_calls,
                   pre_summary, parsed_songs, in_flight, apiVars, extractVars, fnVars, dlVars>>

\* line 457, after the last track
UpdateSummary ==
    /\ ppPc = "loop"
    /\ loop_i > Len(songs_detail)
    /\ pre_summary' = list_txt
    /\ list_txt' = update_file_summary(list_txt, pp_success_count)
    /\ ppPc' = "done"
    /\ UNCHANGED <<songs_detail, loop_i, url_attempt, url_info, pp_success_count,
                   resolved, resolver_calls, parsed_songs, url_requests, url_cause,
                   in_flight, apiVars, extractVars, fnVars, dlVars>>

\* download_songs.py reads the manifest: after the generator finished, or after
\* it was stopped between two tracks (the file then has no footer)
ParseListFile ==
    /\ \/ ppPc = "done"
       \/ ppPc = "loop" /\ loop_i <= Len(songs_detail)
    /\ parsed_songs' = parse_list_file(list_txt)
    /\ ppPc' = "parsed"
    /\ UNCHANGED <<list_txt, songs_detail, loop_i, url_attempt, url_info,
                   pp_success_count, resolved, resolver_calls, pre_summary,
                   url_requests, url_cause,
                   in_flight, apiVars, extractVars, fnVars, dlVars>>

NextManifest ==
    \/ InitFile
    \/ NextTrack
    \/ SendRequest
    \/ \E outcome \in ResolverOutcomes : Request(outcome)
    \/ HandleResult
    \/ UpdateSummary
    \/ ParseListFile

SpecManifest == InitManifest /\ [][NextManifest]_vars

\* lines 447-449 when the append fails: open() or write() raises inside
\* append_song_to_file, the handler of lines 493-494 reports it and the call
\* returns; the file is as it was, and line 449 counts the track all the same
AppendFails ==
    /\ ppPc = "got"
    /\ url_info # NullInfo
    /\ pp_success_count' = SuccessCount(pp_success_count, url_info)
    /\ loop_i' = loop_i + 1
    /\ ppPc' = "loop"
    /\ url_requests' = 0
    /\ url_cause' = "none"
    /\ UNCHANGED <<list_txt, songs_detail, url_attempt, url_info, resolved,
                   resolver_calls, pre_summary, parsed_songs, in_flight, apiVars,
                   extractVars, fnVars, dlVars>>

\* process_playlist on a file system where an append may fail
NextAppendFault ==
    \/ InitFile
    \/ NextTrack
    \/ SendRequest
    \/ \E outcome \in ResolverOutcomes : Request(outcome)
    \/ HandleResult
    \/ AppendFails
    \/ UpdateSummary

SpecAppendFault == InitManifest /\ [][NextAppendFault]_vars

(***************************************************************************)
(* get_playlist_detail (music_downloader.py lines 87-154), one call        *)
(***************************************************************************)
DetailMaxRetries == 3

\* what one POST to playlist/detail can lead to: status 404, status 403, another
\* status than 200, an envelope whose code is not 200, a Timeout, a
\* ConnectionError, any other exception, code 200 with an empty playlist, code
\* 200 with a playlist
DetailOutcomes ==
    {"404", "403", "500", "envelope", "timeout", "connection", "raise", "empty", "playlist"}

\* the responses whose branch ends in "if attempt < max_retries - 1: ... continue"
DetailRetried == {"500", "envelope", "timeout", "connection", "raise"}

ThePlaylist == <<"<playlist>">>

\* one request more than the loop allows
DetailMayRetry_mut(attempt) == attempt < DetailMaxRetries

\* attempt < max_retries - 1 (lines 106, 124, 132, 139, 146)
DetailMayRetry(attempt) == attempt < DetailMaxRetries - 1

InitDetail ==
    /\ pd_pc = "idle"
    /\ pd_attempt = 0
    /\ pd_log = <<>>
    /\ pd_result = Unset
    /\ ExtractIdle /\ FnIdle /\ DlIdle /\ PpIdle /\ PtIdle /\ RunIdle /\ MwIdle /\ PsIdle

\* the call: the loop starts with attempt 0
CallDetail ==
    /\ pd_pc = "idle"
    /\ pd_pc' = "request"
    /\ pd_attempt' = 0
    /\ UNCHANGED <<pd_log, pd_result, notPd>>

DetailReturns(v) ==
    /\ pd_result' = v
    /\ pd_pc' = "returned"
    /\ UNCHANGED pd_attempt

\* one pass of the loop (lines 90-150): the POST of line 96 and the branch its
\* response takes
DetailRequest(outcome) ==
    /\ pd_pc = "request"
    /\ pd_log' = Append(pd_log, outcome)
    /\ IF outcome \in DetailRetried
       THEN IF DetailMayRetry(pd_attempt)
            THEN /\ pd_attempt' = pd_attempt + 1
                 /\ UNCHANGED <<pd_pc, pd_result>>
            ELSE DetailReturns(PyNone)
       ELSE IF outcome = "playlist"
            THEN DetailReturns(ThePlaylist)
            ELSE DetailReturns(PyNone)
    /\ UNCHANGED notPd

NextDetail ==
    \/ CallDetail
    \/ \E outcome \in DetailOutcomes : DetailRequest(outcome)

SpecDetail == InitDetail /\ [][NextDetail]_vars

(***************************************************************************)
(* get_playlist_tracks (music_downloader.py lines 156-245), one call.      *)
(* A track id is modelled by its position in trackIds; the song the server *)
(* returns for an id is modelled by that id.                               *)
(***************************************************************************)
BatchSize == 50

\* longest trackIds list
MaxTrackIds == 101

Min(a, b) == IF a < b THEN a ELSE b

\* what a POST of this function can lead to: a status other than 200, an
\* envelope whose code is not 200, an exception (raised by the request or by
\* response.json()), code 200
TrackOutcomes == {"status", "envelope", "raise", "ok"}

\* the slice one id short
BatchIds_mut(ids, i) == SubSeq(ids, i + 1, Min(i + BatchSize - 1, Len(ids)))

\* line 204: song_ids[i:i+batch_size]
BatchIds(ids, i) == SubSeq(ids, i + 1, Min(i + BatchSize, Len(ids)))

InitTracks ==
    /\ pt_pc = "idle"
    /\ \E n \in 0..MaxTrackIds : pt_ids = [k \in 1..n |-> k]
    /\ pt_first = "none"
    /\ pt_i = 0
    /\ all_songs = <<>>
    /\ pt_log = <<>>
    /\ pt_result = Unset
    /\ ExtractIdle /\ FnIdle /\ DlIdle /\ PpIdle /\ PdIdle /\ RunIdle /\ MwIdle /\ PsIdle

CallTracks ==
    /\ pt_pc = "idle"
    /\ pt_pc' = "detail"
    /\ UNCHANGED <<pt_ids, pt_first, pt_i, all_songs, pt_log, pt_result, notPt>>

TracksReturns(v) ==
    /\ pt_result' = v
    /\ pt_pc' = "returned"

\* lines 158-201: the POST to playlist/detail; anything but code 200 with a
\* non-empty trackIds list ends the call with []
TracksDetail(outcome) ==
    /\ pt_pc = "detail"
    /\ pt_first' = outcome
    /\ IF outcome = "ok" /\ pt_ids # <<>>
       THEN /\ pt_pc' = "batch"
            /\ pt_i' = 0
            /\ all_songs' = <<>>
            /\ UNCHANGED pt_result
       ELSE /\ TracksReturns(<<>>)
            /\ UNCHANGED <<pt_i, all_songs>>
    /\ UNCHANGED <<pt_ids, pt_log, notPt>>

\* one pass of the loop of line 203: the POST to song/detail for the next slice.
\* Code 200 extends all_songs; another status or code leaves it alone and the
\* loop goes on; an exception leaves the loop for the handler of line 243,
\* which returns [].
TracksBatch(outcome) ==
    /\ pt_pc = "batch"
    /\ pt_i < Len(pt_ids)
    /\ LET batch_ids == BatchIds(pt_ids, pt_i)
       IN  /\ pt_log' = Append(pt_log, [ids |-> batch_ids, outcome |-> outcome])
           /\ IF outcome = "raise"
              THEN /\ TracksReturns(<<>>)
                   /\ UNCHANGED <<pt_i, all_songs>>
              ELSE /\ all_songs' = IF outcome = "ok" THEN all_songs \o batch_ids
                                                     ELSE all_songs
                   /\ pt_i' = pt_i + BatchSize
                   /\ UNCHANGED <<pt_pc, pt_result>>
    /\ UNCHANGED <<pt_ids, pt_first, notPt>>

\* lines 240-241: the range is exhausted, all_songs is returned
TracksDone ==
    /\ pt_pc = "batch"
    /\ pt_i >= Len(pt_ids)
    /\ TracksReturns(all_songs)
    /\ UNCHANGED <<pt_ids, pt_first, pt_i, all_songs, pt_log, notPt>>

NextTracks ==
    \/ CallTracks
    \/ \E outcome \in TrackOutcomes : TracksDetail(outcome)
    \/ \E outcome \in TrackOutcomes : TracksBatch(outcome)
    \/ TracksDone

SpecTracks == InitTracks /\ [][NextTracks]_vars

(***************************************************************************)
(* run.py: the command-line entry point                                     *)
(***************************************************************************)
MaxArgc == 2

\* "if not playlist_id" taken for the empty string only
Falsy_mut(v) == v = <<>>

\* music_downloader.py line 382, "if not playlist_id": None and '' are false
Falsy(v) == v = PyNone \/ v = <<>>

\* every exception that leaves main() taken for a failure
ExitCode_mut(raised) == IF raised # "none" THEN 1 ELSE 0

\* run.py lines 31-36: sys.exit(1) of line 17 raises SystemExit, which neither
\* handler catches; KeyboardInterrupt is caught and only reported, the script
\* then ends the normal way; any other exception is reported and sys.exit(1)
\* is called; without an exception the script ends the normal way
ExitCode(raised) == IF raised \in {"SystemExit", "Exception"} THEN 1 ELSE 0

InitRun ==
    /\ run_argc \in 0..MaxArgc
    /\ IF run_argc = 0
       THEN ExtractIdle
       ELSE /\ urlCase \in UrlCases
            /\ playlist_url = RenderUrl(urlCase)
            /\ playlist_id = Unset
    /\ list_txt \in {Absent, StaleManifest}
    /\ list_txt0 = list_txt
    /\ run_pc = "start"
    /\ run_raised = "none"
    /\ run_why = "none"
    /\ exit_code = NoExit
    /\ net_calls = 0
    /\ FnIdle /\ DlIdle /\ PpRestIdle /\ PdIdle /\ PtIdle /\ MwIdle /\ PsIdle

\* process_playlist returns to run.py line 25
RunReturns(why) ==
    /\ run_why' = why
    /\ run_pc' = "unwind"
    /\ UNCHANGED run_raised

\* an exception leaves process_playlist and main()
RunRaises(exc) ==
    /\ run_raised' = exc
    /\ run_pc' = "unwind"
    /\ UNCHANGED run_why

\* run.py lines 13-19: the usage check
RunMain ==
    /\ run_pc = "start"
    /\ IF run_argc # 1
       THEN RunRaises("SystemExit")
       ELSE run_pc' = "extract" /\ UNCHANGED <<run_raised, run_why>>
    /\ UNCHANGED <<run_argc, exit_code, net_calls, list_txt0, list_txt, extractVars, notRun>>

\* music_downloader.py lines 381-386
RunExtract ==
    /\ run_pc = "extract"
    /\ playlist_id' = extract_playlist_id(playlist_url)
    /\ IF Falsy(playlist_id')
       THEN RunReturns("no_id")
       ELSE run_pc' = "detail" /\ UNCHANGED <<run_raised, run_why>>
    /\ UNCHANGED <<run_argc, exit_code, net_calls, list_txt0, list_txt, urlCase,
                   playlist_url, notRun>>

\* lines 389-394: get_playlist_detail returns the playlist or None (it catches
\* every Exception itself), or the user interrupts it
RunDetail(outcome) ==
    /\ run_pc = "detail"
    /\ net_calls' = net_calls + 1
    /\ CASE outcome = "value" -> run_pc' = "tracks" /\ UNCHANGED <<run_raised, run_why>>
         [] outcome = "none" -> RunReturns("no_detail")
         [] outcome = "KeyboardInterrupt" -> RunRaises("KeyboardInterrupt")
    /\ UNCHANGED <<run_argc, exit_code, list_txt0, list_txt, extractVars, notRun>>

\* lines 397-402: get_playlist_tracks returns the tracks or [] (it catches every
\* Exception itself), or the user interrupts it
RunTracks(outcome) ==
    /\ run_pc = "tracks"
    /\ net_calls' = net_calls + 1
    /\ CASE outcome = "value" -> run_pc' = "quality" /\ UNCHANGED <<run_raised, run_why>>
         [] outcome = "none" -> RunReturns("no_tracks")
         [] outcome = "KeyboardInterrupt" -> RunRaises("KeyboardInterrupt")
    /\ UNCHANGED <<run_argc, exit_code, list_txt0, list_txt, extractVars, notRun>>

\* line 405: select_quality reads the choice with input(), which raises
\* EOFError at the end of the input and KeyboardInterrupt on Ctrl-C
RunQuality(outcome) ==
    /\ run_pc = "quality"
    /\ CASE outcome = "value" -> run_pc' = "generate" /\ UNCHANGED <<run_raised, run_why>>
         [] outcome \in {"KeyboardInterrupt", "Exception"} -> RunRaises(outcome)
    /\ UNCHANGED <<run_argc, exit_code, net_calls, list_txt0, list_txt, extractVars, notRun>>

\* lines 413-460 for a playlist of one track: the file is initialised, the
\* track is resolved or not, the footer is written; or the loop is left by an
\* exception after the file was initialised (the user interrupts the request;
\* a track that is no dict makes song.get of line 424 raise)
RunGenerate(outcome) ==
    /\ run_pc = "generate"
    /\ net_calls' = net_calls + 1
    /\ LET fresh == init_file(list_txt, PlaylistName, QualityLevel)
           song == Track(<<"7">>, <<"a">>, << <<"b">> >>)
       IN  CASE outcome = "none_resolved" ->
                   /\ list_txt' = update_file_summary(fresh, 0)
                   /\ RunReturns(outcome)
             [] outcome = "some_resolved" ->
                   /\ list_txt' = update_file_summary(
                                     append_song_to_file(fresh,
                                         SongInfo(song, UrlInfo(<<"mp3">>)), 1), 1)
                   /\ RunReturns(outcome)
             [] outcome \in {"KeyboardInterrupt", "Exception"} ->
                   /\ list_txt' = fresh
                   /\ RunRaises(outcome)
    /\ UNCHANGED <<run_argc, exit_code, list_txt0, extractVars, notRun>>

\* run.py lines 31-36 and the end of the script
RunExit ==
    /\ run_pc = "unwind"
    /\ exit_code' = ExitCode(run_raised)
    /\ run_pc' = "exited"
    /\ UNCHANGED <<run_argc, run_raised, run_why, net_calls, list_txt0, list_txt,
                   extractVars, notRun>>

NextRun ==
    \/ RunMain
    \/ RunExtract
    \/ \E outcome \in {"value", "none", "KeyboardInterrupt"} : RunDetail(outcome)
    \/ \E outcome \in {"value", "none", "KeyboardInterrupt"} : RunTracks(outcome)
    \/ \E outcome \in {"value", "KeyboardInterrupt", "Exception"} : RunQuality(outcome)
    \/ \E outcome \in {"none_resolved", "some_resolved", "KeyboardInterrupt", "Exception"} :
          RunGenerate(outcome)
    \/ RunExit

SpecRun == InitRun /\ [][NextRun]_vars

(***************************************************************************)
(* main of download_songs.py: the worker-count prompt (lines 204-212)       *)
(***************************************************************************)
MaxInputLen == 3
DefaultWorkers == 3
MinWorkers == 1
MaxWorkers == 10

\* the characters the typed line is made of
InputChars == {"0", "1", "9", "-", "+", " ", "x", "_"}

Max(a, b) == IF a > b THEN a ELSE b
IsDigitToken(tok) == tok \in Digits

\* the digits and underscores of a literal, without its sign
Unsigned(str) == IF str # <<>> /\ str[1] \in {"+", "-"} THEN Tail(str) ELSE str

\* the strings int() accepts: an optional sign, then digits, with single
\* underscores allowed between two digits; everything else is a ValueError
IsIntLiteral(str) ==
    LET body == Unsigned(str)
    IN  /\ body # <<>>
        /\ \A k \in 1..Len(body) : body[k] \in Digits \cup {"_"}
        /\ body[1] \in Digits
        /\ body[Len(body)] \in Digits
        /\ \A k \in 1..(Len(body) - 1) : ~(body[k] = "_" /\ body[k + 1] = "_")

\* int(str) for such a string
IntValue(str) ==
    LET v == StrToInt(SelectSeq(Unsigned(str), IsDigitToken))
    IN  IF str[1] = "-" THEN 0 - v ELSE v

\* the value cut off at the upper end only
WorkerCount_mut(text) ==
    LET typed == Strip(text)
        str == IF typed = <<>> THEN <<"3">> ELSE typed
    IN  IF IsIntLiteral(str) THEN Min(MaxWorkers, IntValue(str)) ELSE DefaultWorkers

\* lines 205-209: int(input(...).strip() or "3"), cut to 1..10; 3 on ValueError
WorkerCount(text) ==
    LET typed == Strip(text)
        str == IF typed = <<>> THEN <<"3">> ELSE typed
    IN  IF IsIntLiteral(str)
        THEN Max(MinWorkers, Min(MaxWorkers, IntValue(str)))
        ELSE DefaultWorkers

RECURSIVE TextsUpTo(_)
TextsUpTo(n) ==
    IF n = 0 THEN {<<>>}
    ELSE LET shorter == TextsUpTo(n - 1)
         IN  shorter \cup {Append(t, c) : t \in shorter, c \in InputChars}

InitWorkers ==
    /\ workers_input \in TextsUpTo(MaxInputLen)
    /\ workers_pc = "prompt"
    /\ workers_arg = 0
    /\ ExtractIdle /\ FnIdle /\ DlIdle /\ PpIdle /\ PdIdle /\ PtIdle /\ RunIdle /\ PsIdle

\* lines 205-212: the line is read and download_all_songs is called
AskWorkers ==
    /\ workers_pc = "prompt"
    /\ workers_arg' = WorkerCount(workers_input)
    /\ workers_pc' = "called"
    /\ UNCHANGED <<workers_input, notMw>>

\* line 206: input() raises EOFError or KeyboardInterrupt, which the handler of
\* lines 205-209 does not catch; download_all_songs is not called
PromptRaises ==
    /\ workers_pc = "prompt"
    /\ workers_input = <<>>
    /\ workers_pc' = "raised"
    /\ UNCHANGED <<workers_input, workers_arg, notMw>>

NextWorkers == AskWorkers \/ PromptRaises

SpecWorkers == InitWorkers /\ [][NextWorkers]_vars

(***************************************************************************)
(* process_single_song (music_downloader.py lines 327-356): calls running  *)
(* at the same time on one NeteaseMusicDownloader                          *)
(***************************************************************************)
MaxCalls == 3

Calls == DOMAIN ps_pc

\* a lock that lets every caller in
LockFree_mut(lock) == TRUE

\* line 337, "with self.lock": acquire() blocks while another call holds it
LockFree(lock) == lock = 0

InitProgress ==
    /\ \E k \in 1..MaxCalls :
          /\ ps_pc = [c \in 1..k |-> "resolve"]
          /\ ps_reg = [c \in 1..k |-> 0]
          /\ ps_current = [c \in 1..k |-> 0]
    /\ ps_lock = 0
    /\ processed_count \in 0..MaxCalls
    /\ ps_count0 = processed_count
    /\ ExtractIdle /\ FnIdle /\ DlIdle /\ PpIdle /\ PdIdle /\ PtIdle /\ RunIdle /\ MwIdle

\* lines 329-335: the fields are read and get_song_url_v1 has returned
PsResolve(c) ==
    /\ ps_pc[c] = "resolve"
    /\ ps_pc' = [ps_pc EXCEPT ![c] = "acquire"]
    /\ UNCHANGED <<ps_lock, processed_count, ps_reg, ps_current, ps_count0, notPs>>

\* line 337: the lock is taken
PsAcquire(c) ==
    /\ ps_pc[c] = "acquire"
    /\ LockFree(ps_lock)
    /\ ps_lock' = c
    /\ ps_pc' = [ps_pc EXCEPT ![c] = "load"]
    /\ UNCHANGED <<processed_count, ps_reg, ps_current, ps_count0, notPs>>

\* line 338, first half of "self.processed_count += 1": the attribute is read
PsLoad(c) ==
    /\ ps_pc[c] = "load"
    /\ ps_reg' = [ps_reg EXCEPT ![c] = processed_count]
    /\ ps_pc' = [ps_pc EXCEPT ![c] = "store"]
    /\ UNCHANGED <<ps_lock, processed_count, ps_current, ps_count0, notPs>>

\* line 338, second half: the sum is stored
PsStore(c) ==
    /\ ps_pc[c] = "store"
    /\ processed_count' = ps_reg[c] + 1
    /\ ps_pc' = [ps_pc EXCEPT ![c] = "current"]
    /\ UNCHANGED <<ps_lock, ps_reg, ps_current, ps_count0, notPs>>

\* line 339: current = self.processed_count
PsCurrent(c) ==
    /\ ps_pc[c] = "current"
    /\ ps_current' = [ps_current EXCEPT ![c] = processed_count]
    /\ ps_pc' = [ps_pc EXCEPT ![c] = "release"]
    /\ UNCHANGED <<ps_lock, processed_count, ps_reg, ps_count0, notPs>>

\* lines 342-356: the line is printed and the call returns out of the with
\* block, which releases the lock
PsRelease(c) ==
    /\ ps_pc[c] = "release"
    /\ ps_lock' = 0
    /\ ps_pc' = [ps_pc EXCEPT ![c] = "done"]
    /\ UNCHANGED <<processed_count, ps_reg, ps_current, ps_count0, notPs>>

NextProgress ==
    \E c \in Calls :
        \/ PsResolve(c)
        \/ PsAcquire(c)
        \/ PsLoad(c)
        \/ PsStore(c)
        \/ PsCurrent(c)
        \/ PsRelease(c)

SpecProgress == InitProgress /\ [][NextProgress]_vars

InitExtract ==
    /\ urlCase \in UrlCases
    /\ playlist_url = RenderUrl(urlCase)
    /\ playlist_id = Unset
    /\ FnIdle
    /\ DlIdle
    /\ MfIdle

\* process_playlist line 381 / run.py line 25: the extractor is applied to the input
ExtractPlaylistId ==
    /\ playlist_id = Unset
    /\ playlist_id' = extract_playlist_id(playlist_url)
    /\ UNCHANGED <<urlCase, playlist_url, fnVars, dlVars, mfVars>>

NextExtract == ExtractPlaylistId

InitFilename ==
    /\ fnSong \in FnSongs
    /\ filename = Unset
    /\ ExtractIdle
    /\ DlIdle
    /\ MfIdle

\* download_song lines 80-82
MakeFilename ==
    /\ filename = Unset
    /\ filename' = BuildFilename(fnSong)
    /\ UNCHANGED <<fnSong, extractVars, dlVars, mfVars>>

NextFilename == MakeFilename
SpecFilename == InitFilename /\ [][NextFilename]_vars

SpecExtract == InitExtract /\ [][NextExtract]_vars

\* C4: for every playlist URL of a supported shape carrying N (query form, path
\* form, and the documented example https://music.163.com/#/playlist?id=N), the
\* extractor returns N, which is also what it returns for the bare input N.
SupportedShape(c) ==
    /\ c.scheme # <<>>
    /\ \/ c.form \in {"query", "path"} /\ ~Contains(c.prefix, "#")
       \/ /\ c.form = "query" /\ c.prefix = <<"/", "#", "/">>
          /\ c.scheme = <<"https", ":", "/", "/">> /\ c.host = <<"music.163.com">>
C4_UrlSameAsBareId ==
    (playlist_id # Unset /\ SupportedShape(urlCase)) =>
        /\ playlist_id = urlCase.id
        /\ playlist_id = extract_playlist_id(urlCase.id)

\* C5: the filename download_song builds holds none of < > : " / \ | ? * (each was
\* replaced by '_', every other character kept) and is at most 200 characters long.
C5_FilenameSanitized ==
    filename # Unset =>
        /\ Len(filename) <= 200
        /\ \A k \in 1..Len(filename) :
              /\ filename[k] \notin {"<", ">", ":", "\"", "/", "\\", "|", "?", "*"}
              /\ filename[k] = IF RawFilename(fnSong)[k] \in {"<", ">", ":", "\"", "/", "\\", "|", "?", "*"}
                               THEN "_" ELSE RawFilename(fnSong)[k]
C5_Witness ==
    /\ filename # Unset
    /\ Len(RawFilename(fnSong)) > 200
    /\ Len(filename) = 200
    /\ \E k \in 1..200 : RawFilename(fnSong)[k] = "?" /\ filename[k] = "_"

\* C1: a call whose every GET fails (a status other than 200/206, or an
\* exception) issues exactly max_retries GETs, never more on the way, and then
\* returns False.
C1_ExactlyMaxRetries ==
    \A t \in Tasks :
        (task[t].pc \in {"get", "stream", "done"} /\ ~task[t].skipped /\ ~task[t].okSeen) =>
            /\ task[t].gets <= task[t].max_retries
            /\ Done(t) => (task[t].gets = task[t].max_retries /\ task[t].result = "False")
C1_Witness ==
    \E t \in Tasks :
        /\ Done(t) /\ ~task[t].skipped /\ ~task[t].okSeen
        /\ task[t].max_retries >= 3
        /\ task[t].gets = task[t].max_retries
        /\ task[t].result = "False"

\* C2: a file found at the target path whose size differs from the expected size
\* by 0..1024 bytes (1024 included), in either direction, makes download_song
\* return True without any GET.
C2_SkipWithin1024Inclusive ==
    \A t \in Tasks :
        (task[t].found >= 0 /\ Abs(task[t].found - songs[t].size) <= 1024) =>
            /\ task[t].gets = 0
            /\ Done(t) /\ task[t].result = "True"

\* C6: when the summary is printed every record was counted exactly once.
C6_CountsMatch ==
    /\ mainPc \in {"collect", "printed"} => success_count + failed_count = Cardinality(collected)
    /\ mainPc = "printed" =>
          /\ success_count + failed_count = Len(songs)
          /\ success_count = Cardinality({t \in Tasks : task[t].result = "True"})
          /\ failed_count = Cardinality({t \in Tasks : task[t].result = "False"})
C6_Witness ==
    /\ mainPc = "printed"
    /\ Len(songs) >= 2
    /\ success_count >= 1
    /\ failed_count >= 1

\* C7: never more than max_workers download_song calls are running.
C7_BoundedConcurrency == NumRunning <= max_workers
C7_Witness ==
    /\ Len(songs) > max_workers
    /\ NumRunning = max_workers
    /\ work_queue # <<>>

(***************************************************************************)
(* The manifest: what process_playlist wrote and what the reader gets back *)
(***************************************************************************)
\* the ordinals of the tracks the resolver returned a result for, in list order
ResolvedOrdinals ==
    LET Ok(j) == resolved[j] # NullInfo
    IN  SelectSeq([j \in 1..Len(resolved) |-> j], Ok)

\* the records written for them
WrittenRecord(j) == SongInfo(songs_detail[j], resolved[j])

\* their blocks, one after the other
WrittenBlocks ==
    Concat([k \in 1..Len(ResolvedOrdinals) |->
               BlockText(WrittenRecord(ResolvedOrdinals[k]), ResolvedOrdinals[k])])

\* C3: whatever records were written (with or without the footer), the reader
\* returns as many records, in the same order, with the index, name, artist,
\* song id, quality, bitrate, url, size and type that were written.
C3_ManifestRoundTrip ==
    ppPc = "parsed" =>
        /\ Len(parsed_songs) = Len(ResolvedOrdinals)
        /\ \A k \in 1..Len(ResolvedOrdinals) :
              LET w == WrittenRecord(ResolvedOrdinals[k])
              IN  parsed_songs[k] =
                     [index |-> ResolvedOrdinals[k], name |-> w.name, artist |-> w.artist,
                      song_id |-> w.song_id, quality |-> w.quality, bitrate |-> w.bitrate,
                      url |-> w.url, size |-> w.size, type |-> w.type]

\* C8: after update_file_summary the file is the header, then the blocks that
\* were appended, unchanged and in order, then the footer with the count.
C8_FooterRewritePreserves ==
    ppPc = "done" =>
        /\ pre_summary = HeaderText(PlaylistName, QualityLevel) \o WrittenBlocks
        /\ list_txt = pre_summary \o FooterText(pp_success_count)

BlockCount(txt) == Cardinality({k \in 1..Len(txt) : txt[k] = "gequID:"})

\* C10: a track the resolver returned None for has no block and is not counted,
\* and the loop goes on: every track before the current one was handed to the
\* resolver once, the current one once when it is being resolved, and the later
\* ones not yet; when the footer is written every track was handed over once.
C10_PartialSuccess ==
    /\ \A j \in 1..Len(songs_detail) :
          resolver_calls[j] =
              IF j < loop_i \/ (j = loop_i /\ ppPc \in {"request", "wait", "got"}) THEN 1 ELSE 0
    /\ ppPc = "done" => loop_i = Len(songs_detail) + 1
    /\ ppPc \in {"loop", "done"} =>
          /\ pp_success_count = Len(ResolvedOrdinals)
          /\ BlockCount(list_txt) = Len(ResolvedOrdinals)
          /\ \A j \in 1..Len(resolved) :
                resolved[j] = NullInfo =>
                    LET lines == ReadLines(list_txt)
                    IN  \A n \in 1..Len(lines) :
                           ~StartsWith(lines[n], IntToStr(j) \o <<".", " ">>)
C10_Witness ==
    /\ ppPc = "done"
    /\ Len(songs_detail) = 2
    /\ resolved[1] = NullInfo
    /\ resolved[2] # NullInfo
    /\ pp_success_count = 1
    /\ resolver_calls = <<1, 1>>

(***************************************************************************)
(* The batch: records are independent of each other                        *)
(***************************************************************************)
\* C11: whatever happens to the other records, every record keeps the budget
\* of max_retries GETs it was submitted with: one that fails has issued all of
\* them, none issues more, and when the summary is printed every record was
\* attempted or skipped.
C11_FailureIsolation ==
    /\ \A t \in Tasks :
          /\ task[t].max_retries = DefaultMaxRetries
          /\ task[t].gets <= task[t].max_retries
          /\ (Done(t) /\ task[t].result = "False") => task[t].gets = task[t].max_retries
          /\ (Done(t) /\ task[t].result = "True") => (task[t].skipped \/ task[t].okSeen)
    /\ mainPc = "printed" => \A t \in Tasks : Done(t)
C11_Witness ==
    /\ mainPc = "printed"
    /\ Len(songs) = 2
    /\ task[1].result = "False" /\ task[1].gets = DefaultMaxRetries
    /\ task[2].result = "True" /\ task[2].gets = DefaultMaxRetries

(***************************************************************************)
(* get_song_url_v1: the retry loop                                         *)
(***************************************************************************)
\* C12: one call issues at most 2 requests, every failed response (an envelope
\* without a url included) is retried while attempts remain, and None comes
\* back only when the 2 requests are used up.
C12_NullOnlyOnExhaustion ==
    /\ url_requests <= UrlMaxRetries
    /\ (ppPc = "got" /\ url_info = NullInfo) => url_requests = UrlMaxRetries

\* C12 as amended: one call issues at most 2 requests; a status other than
\* 200, an exception or an envelope without code 200 or data is retried once
\* and None comes back after the second; an envelope whose entry has no url
\* makes the call return None at once, without a retry.
C12_RetriesExceptEmptyUrl ==
    /\ url_requests <= UrlMaxRetries
    /\ ppPc = "request" =>
          /\ url_requests = url_attempt
          /\ url_requests > 0 => url_cause \in {"status", "raise", "envelope"}
    /\ (ppPc = "got" /\ url_info = NullInfo) =>
          \/ url_cause = "nourl"
          \/ url_cause \in {"status", "raise", "envelope"} /\ url_requests = UrlMaxRetries
    /\ (ppPc = "got" /\ url_info # NullInfo) => url_cause = "ok"
C12_Witness ==
    /\ ppPc = "got"
    /\ url_info = NullInfo
    /\ url_cause = "nourl"
    /\ url_requests = 1

(***************************************************************************)
(* get_playlist_detail: the retry loop                                     *)
(***************************************************************************)
\* C13: one call makes at most 3 requests; every response before the last was
\* a retryable failure; the call returns the playlist on the first response
\* that carries one, None after the third retryable failure, and None right
\* after a 404 or a 403.
C13_DetailAtMostThree ==
    /\ Len(pd_log) <= 3
    /\ \A k \in 1..(Len(pd_log) - 1) :
          pd_log[k] \in {"500", "envelope", "timeout", "connection", "raise"}
    /\ pd_pc = "request" =>
          /\ Len(pd_log) = pd_attempt
          /\ Len(pd_log) < 3
          /\ \A k \in 1..Len(pd_log) :
                pd_log[k] \in {"500", "envelope", "timeout", "connection", "raise"}
    /\ pd_pc = "returned" =>
          LET last == pd_log[Len(pd_log)]
          IN  /\ (pd_result = ThePlaylist) <=> (last = "playlist")
              /\ last # "playlist" => pd_result = PyNone
              /\ last \in {"500", "envelope", "timeout", "connection", "raise"} =>
                    Len(pd_log) = 3
C13_Witness ==
    /\ pd_pc = "returned"
    /\ pd_log = <<"500", "timeout", "envelope">>
    /\ pd_result = PyNone

(***************************************************************************)
(* get_playlist_tracks: the batches                                        *)
(***************************************************************************)
\* the songs of the batches that were answered with code 200, in request order
SongsOfGoodBatches ==
    Concat([k \in 1..Len(pt_log) |->
               IF pt_log[k].outcome = "ok" THEN pt_log[k].ids ELSE <<>>])

\* C14: when the track-id list was obtained, whatever batch failed (status,
\* envelope code or exception), the call returns the songs of every batch that
\* did not fail, in batch order; no batch is requested twice.
C14_FailedBatchDropped ==
    (pt_pc = "returned" /\ pt_first = "ok" /\ pt_ids # <<>>) =>
        /\ pt_result = SongsOfGoodBatches
        /\ \A j, k \in 1..Len(pt_log) : j # k => pt_log[j].ids # pt_log[k].ids

\* C18: the song/detail requests made so far carry the first slices of 50 of
\* the id list, in order (so no id is in two requests and only the slice that
\* ends the list may be shorter); with no exception the call returns after
\* ceil(n/50) requests, every id in exactly one of them.
C18_BatchesOfFifty ==
    LET n == Len(pt_ids)
    IN  /\ \A k \in 1..Len(pt_log) :
              /\ pt_log[k].ids = [j \in 1..Min(50, n - 50 * (k - 1)) |-> pt_ids[50 * (k - 1) + j]]
              /\ Len(pt_log[k].ids) >= 1
              /\ Len(pt_log[k].ids) < 50 => 50 * (k - 1) + Len(pt_log[k].ids) = n
        /\ (pt_pc = "returned" /\ pt_first = "ok" /\ n > 0
               /\ \A k \in 1..Len(pt_log) : pt_log[k].outcome # "raise") =>
              /\ Len(pt_log) = (n + 49) \div 50
              /\ \A j \in 1..n :
                    Cardinality({k \in 1..Len(pt_log) :
                                    \E x \in 1..Len(pt_log[k].ids) : pt_log[k].ids[x] = pt_ids[j]}) = 1
C18_Witness ==
    /\ pt_pc = "returned"
    /\ Len(pt_ids) = 101
    /\ Len(pt_log) = 3
    /\ Len(pt_log[1].ids) = 50 /\ Len(pt_log[2].ids) = 50 /\ pt_log[3].ids = <<101>>
    /\ pt_log[2].outcome = "status"
    /\ Len(pt_result) = 51

(***************************************************************************)
(* run.py: exit codes                                                      *)
(***************************************************************************)
\* C15: run.py exits with code 1 when the number of arguments is not exactly
\* one or when an exception other than KeyboardInterrupt reaches the top level,
\* and with code 0 in every other case: no playlist id, no playlist detail, no
\* tracks, no track resolved, some track resolved, interrupted by the user.
C15_ExitCodes ==
    run_pc = "exited" =>
        /\ exit_code = IF run_argc # 1 \/ run_raised = "Exception" THEN 1 ELSE 0
        /\ run_why \in {"no_id", "no_detail", "no_tracks", "none_resolved",
                        "some_resolved"} => exit_code = 0
        /\ run_raised = "KeyboardInterrupt" => exit_code = 0
        /\ run_argc = 1 \/ (run_raised = "SystemExit" /\ playlist_id = Unset /\ net_calls = 0)
C15_Witness ==
    /\ run_pc = "exited"
    /\ run_raised = "KeyboardInterrupt"
    /\ net_calls = 3
    /\ exit_code = 0

(***************************************************************************)
(* main of download_songs.py: the worker count                             *)
(***************************************************************************)
\* C16: the worker count handed to download_all_songs is in 1..10: an integer
\* below 1 becomes 1, one above 10 becomes 10, one in between is kept, and an
\* empty or non-integer line gives 3.
C16_WorkerCountClamped ==
    workers_pc = "called" =>
        /\ workers_arg \in 1..10
        /\ LET typed == Strip(workers_input)
           IN  IF typed = <<>> \/ ~IsIntLiteral(typed)
               THEN workers_arg = 3
               ELSE LET v == IntValue(typed)
                    IN  /\ v < 1 => workers_arg = 1
                        /\ v > 10 => workers_arg = 10
                        /\ v \in 1..10 => workers_arg = v
C16_Witness ==
    /\ workers_pc = "called"
    /\ workers_input = <<"-", "1">>
    /\ workers_arg = 1

(***************************************************************************)
(* process_playlist: input without a playlist id                           *)
(***************************************************************************)
\* an input that names a playlist page but carries no id
Unrecognized(c) == c.form \in {"noId", "blankId"}

C20_PoolTerminates ==
    <>(/\ mainPc = "printed"
       /\ work_queue = <<>>
       /\ \A t \in Tasks : Done(t) /\ t \in collected)
C20_Witness ==
    /\ mainPc = "printed"
    /\ Len(songs) = 2
    /\ max_workers = 1
    /\ failed_count = 1
    /\ success_count = 1

(***************************************************************************)
(* process_single_song: the progress counter                               *)
(***************************************************************************)
\* C21: processed_count is read and written only by the call that holds the
\* lock; when the k calls have all returned, processed_count has grown by k and
\* the calls saw k different values of current.
C21_NoLostUpdate ==
    /\ \A c \in Calls :
          ps_pc[c] \in {"load", "store", "current", "release"} => ps_lock = c
    /\ (\A c \in Calls : ps_pc[c] = "done") =>
          /\ processed_count = ps_count0 + Len(ps_pc)
          /\ \A c, d \in Calls : c # d => ps_current[c] # ps_current[d]
          /\ {ps_current[c] : c \in Calls} = (ps_count0 + 1)..(ps_count0 + Len(ps_pc))
C21_Witness ==
    /\ Len(ps_pc) = 3
    /\ \A c \in Calls : ps_pc[c] = "done"
    /\ ps_current[1] = ps_count0 + 3
    /\ ps_current[3] = ps_count0 + 1

(***************************************************************************)
(* The manifest: ordinal indices                                           *)
(***************************************************************************)
\* the lines of a manifest text that begin with a number and a dot, and the
\* numbers they begin with, in file order
IndexLen(line) ==
    IF \E d \in 2..Len(line) : line[d] = "." /\ \A i \in 1..(d - 1) : line[i] \in Digits
    THEN (CHOOSE d \in 2..Len(line) :
             line[d] = "." /\ \A i \in 1..(d - 1) : line[i] \in Digits) - 1
    ELSE 0
WrittenIndices(txt) ==
    LET IsIndexLine(line) == IndexLen(line) > 0
        lines == SelectSeq(Split(txt, NL), IsIndexLine)
    IN  [k \in 1..Len(lines) |-> StrToInt(SubSeq(lines[k], 1, IndexLen(lines[k])))]

EndsWith(txt, suffix) ==
    Len(txt) >= Len(suffix)
    /\ SubSeq(txt, Len(txt) - Len(suffix) + 1, Len(txt)) = suffix

\* C23: when the footer has been written, the count in it is the number of
\* record blocks in the file, whatever tracks were resolved and also when an
\* append to the file failed.
C23_FooterCountsBlocks ==
    ppPc = "done" => EndsWith(list_txt, FooterText(BlockCount(list_txt)))

(***************************************************************************)
(* download_all_songs: one writer per file                                 *)
(***************************************************************************)
\* the calls that have the file at path open for writing
Writers(path) == {t \in Tasks : task[t].pc = "stream" /\ FilePath(songs[t]) = path}

\* C24: when the records of a batch have different indices they have different
\* target paths, also where names are cut at 200 characters or differ only in
\* replaced characters, and no file is open for writing in two calls at once.
C24_OneWriterPerFile ==
    (\A t, u \in Tasks : t # u => songs[t].index # songs[u].index) =>
        /\ \A t, u \in Tasks : t # u => FilePath(songs[t]) # FilePath(songs[u])
        /\ \A path \in DOMAIN disk : Cardinality(Writers(path)) <= 1
C24_Witness ==
    /\ Len(songs) = 2
    /\ songs[1].index # songs[2].index
    /\ Len(RawFilename(songs[1])) > MaxFilenameLen
    /\ Len(RawFilename(songs[2])) > MaxFilenameLen
    /\ task[1].pc = "stream"
    /\ task[2].pc = "stream"

C26_ManifestReplacedOnlyByGeneration ==
    /\ run_pc \in {"start", "extract", "detail", "tracks", "quality", "generate"} =>
          list_txt = list_txt0
    /\ run_why \in {"no_id", "no_detail", "no_tracks"} => list_txt = list_txt0
    /\ (run_pc \in {"unwind", "exited"} /\ net_calls < 3) => list_txt = list_txt0
    /\ (run_pc \in {"unwind", "exited"} /\ net_calls = 3) =>
          /\ StartsWith(list_txt, HeaderText(PlaylistName, QualityLevel))
          /\ ~Contains(list_txt, "old")
          /\ BlockCount(list_txt) = IF run_why = "some_resolved" THEN 1 ELSE 0
C26_Witness ==
    /\ run_pc = "exited"
    /\ list_txt0 = StaleManifest
    /\ run_why = "none_resolved"
    /\ StartsWith(list_txt, HeaderText(PlaylistName, QualityLevel))

====
